---- MODULE Spec2Model ----
(***************************************************************************)
(* Model of pyoxidizer/src/pyembed/pymodules_module.rs: the parser of the  *)
(* embedded modules blob, the derivation of the package set, and the       *)
(* ModulesType registry with its four query methods.                       *)
(*                                                                         *)
(* A blob and a Rust str are sequences of bytes (0..255); a Python str is  *)
(* a sequence of code points.  A HashMap<&str, &[u8]> is a function from a *)
(* set of names to byte ranges [start, end) of the blob it borrows from.   *)
(* Offsets are 0-based as in the source; Slice converts to TLA+ indexing.  *)
(***************************************************************************)
EXTENDS Naturals, Sequences, FiniteSets

VARIABLES
    \* --- registry life cycle (Spec) ---
    PY_MODULES_DATA,    \* the embedded source blob
    PYC_MODULES_DATA,   \* the embedded compiled-code blob
    pc,                 \* position inside init / make_modules
    py_modules,         \* make_modules local: result of the first parse
    pyc_modules,        \* make_modules local: result of the second parse
    packages,           \* make_modules local: the HashSet being populated
    todo,               \* keys the running `for key in ...keys()` has not yet visited
    parsed,             \* history: which blobs parse_modules_blob was called on, in order
    err,                \* the PyErr make_modules returned (kind "None" if none)
    instance,           \* the ModulesType instance (exists = FALSE before create_instance)
    MODULES,            \* TRUE once m.add(py, "MODULES", modules) has run
    call,               \* the last method call on MODULES: [op, name, result]
    first,              \* history: the first method call made on MODULES
    \* --- parser on its own (SpecParse) ---
    entries,            \* the (name, payload) list the blob was encoded from
    data,               \* the blob handed to parse_modules_blob
    res,                \* what parse_modules_blob returned
    \* --- package derivation on its own (SpecDerive) ---
    names,              \* the collection of names
    pkgA, seenA,        \* first derivation: package set, names applied so far
    pkgB, seenB         \* second derivation, in its own order

vars == << PY_MODULES_DATA, PYC_MODULES_DATA, pc, py_modules, pyc_modules, packages,
           todo, parsed, err, instance, MODULES, call, first,
           entries, data, res, names, pkgA, seenA, pkgB, seenB >>

registryVars == << PY_MODULES_DATA, PYC_MODULES_DATA, pc, py_modules, pyc_modules,
                   packages, todo, parsed, err, instance, MODULES, call, first >>
parseVars    == << entries, data, res >>
deriveVars   == << names, pkgA, seenA, pkgB, seenB >>

-----------------------------------------------------------------------------
(* Bytes and slices                                                        *)

\* &data[from..to] with 0-based, end-exclusive offsets
Slice(bytes, from, to) == SubSeq(bytes, from + 1, to)

\* the 1-based positions of the bytes in [from, to)
Range(from, to) == { i \in 1..to : i > from }

EmptyMap == [n \in {} |-> [start |-> 0, end |-> 0]]

-----------------------------------------------------------------------------
(* parse_modules_blob                                                      *)

\* variant: the size check written with <= instead of <
too_small_inclusive(bytes) == Len(bytes) <= 4

\* data.len() < 4
too_small(bytes) == Len(bytes) < 4

\* reader.read_u32::<LittleEndian>() at cursor position pos: Ok only when four
\* bytes remain (the source unwraps the result)
can_read_u32(bytes, pos) == pos + 4 <= Len(bytes)

read_u32(bytes, pos) ==
    bytes[pos + 1] + 256 * bytes[pos + 2] + 65536 * bytes[pos + 3]
        + 16777216 * bytes[pos + 4]

\* The `while i < count` loop.  st = [pos, index, total, read]; the loop ends
\* with panic = TRUE when an unwrap() meets a read past the end of the data.
RECURSIVE read_index(_, _, _)
read_index(bytes, count, st) ==
    IF ~(Len(st.index) < count)
    THEN [panic |-> FALSE, pos |-> st.pos, index |-> st.index,
          total |-> st.total, read |-> st.read]
    ELSE IF ~can_read_u32(bytes, st.pos)
    THEN [panic |-> TRUE, pos |-> st.pos, index |-> st.index,
          total |-> st.total, read |-> st.read]
    ELSE IF ~can_read_u32(bytes, st.pos + 4)
    THEN [panic |-> TRUE, pos |-> st.pos + 4, index |-> st.index,
          total |-> st.total, read |-> st.read \cup Range(st.pos, st.pos + 4)]
    ELSE LET name_length == read_u32(bytes, st.pos)
             data_length == read_u32(bytes, st.pos + 4)
         IN  read_index(bytes, count,
                 [pos   |-> st.pos + 8,
                  index |-> Append(st.index, << name_length, data_length >>),
                  total |-> st.total + name_length,
                  read  |-> st.read \cup Range(st.pos, st.pos + 8)])

\* variant: the values section taken to start where the names section starts
values_start_offset_without_names(position, total_names_length) == position

\* reader.position() as usize + total_names_length
values_start_offset_of(position, total_names_length) == position + total_names_length

\* variant: an insert that keeps the value already stored for the name
insert_keep_first(map, name, value) ==
    [n \in DOMAIN map \cup {name} |-> IF n \in DOMAIN map THEN map[n] ELSE value]

\* res.insert(name, value): the entry for name is created or its value replaced
insert(map, name, value) ==
    [n \in DOMAIN map \cup {name} |-> IF n = name THEN value ELSE map[n]]

\* The `for (name_length, value_length) in index` loop from entry k on.
\* st = [offset, values_current_offset, res, read]; a slice whose end lies past
\* data.len() panics.
RECURSIVE read_entries(_, _, _, _, _)
read_entries(bytes, index, k, values_start_offset, st) ==
    IF k > Len(index)
    THEN [panic |-> FALSE, res |-> st.res, read |-> st.read]
    ELSE LET name_length  == index[k][1]
             value_length == index[k][2]
             offset       == st.offset
             value_offset == values_start_offset + st.values_current_offset
         IN  IF offset + name_length > Len(bytes)
             THEN [panic |-> TRUE, res |-> st.res, read |-> st.read]
             ELSE IF value_offset + value_length > Len(bytes)
             THEN [panic |-> TRUE, res |-> st.res,
                   read |-> st.read \cup Range(offset, offset + name_length)]
             ELSE read_entries(bytes, index, k + 1, values_start_offset,
                     [offset |-> offset + name_length,
                      values_current_offset |-> st.values_current_offset + value_length,
                      res  |-> insert(st.res, Slice(bytes, offset, offset + name_length),
                                      [start |-> value_offset,
                                       end   |-> value_offset + value_length]),
                      read |-> st.read \cup Range(offset, offset + name_length)
                                       \cup Range(value_offset, value_offset + value_length)])

\* The outcome of parse_modules_blob(data):
\*   kind = "Ok"    : Ok(map)
\*   kind = "Err"   : Err(msg)
\*   kind = "Panic" : the thread panicked (unwrap on a failed read, or a slice
\*                    index out of range)
\* read is the set of positions of data that were read or sliced.
parse_modules_blob(bytes) ==
    IF too_small(bytes)
    THEN [kind |-> "Err", msg |-> "modules data too small", map |-> EmptyMap, read |-> {}]
    ELSE LET count == read_u32(bytes, 0)
             idx   == read_index(bytes, count,
                          [pos |-> 4, index |-> << >>, total |-> 0, read |-> Range(0, 4)])
         IN  IF idx.panic
             THEN [kind |-> "Panic", msg |-> "", map |-> EmptyMap, read |-> idx.read]
             ELSE LET ent == read_entries(bytes, idx.index, 1,
                                 values_start_offset_of(idx.pos, idx.total),
                                 [offset |-> idx.pos, values_current_offset |-> 0,
                                  res |-> EmptyMap, read |-> idx.read])
                  IN  IF ent.panic
                      THEN [kind |-> "Panic", msg |-> "", map |-> EmptyMap,
                            read |-> ent.read]
                      ELSE [kind |-> "Ok", msg |-> "", map |-> ent.res, read |-> ent.read]

NoResult == [kind |-> "None", msg |-> "", map |-> EmptyMap, read |-> {}]

-----------------------------------------------------------------------------
(* The blob format, as the build step writes it (spec section 3)           *)

u32_le(v) == << v % 256, (v \div 256) % 256, (v \div 65536) % 256,
                (v \div 16777216) % 256 >>

RECURSIVE index_bytes(_, _)
index_bytes(list, k) ==
    IF k > Len(list) THEN << >>
    ELSE u32_le(Len(list[k].name)) \o u32_le(Len(list[k].payload))
             \o index_bytes(list, k + 1)

RECURSIVE names_bytes(_, _)
names_bytes(list, k) ==
    IF k > Len(list) THEN << >> ELSE list[k].name \o names_bytes(list, k + 1)

RECURSIVE values_bytes(_, _)
values_bytes(list, k) ==
    IF k > Len(list) THEN << >> ELSE list[k].payload \o values_bytes(list, k + 1)

\* u32 count, count x (u32 name_length, u32 data_length), the names, the payloads
EncodeBlob(list) ==
    u32_le(Len(list)) \o index_bytes(list, 1) \o names_bytes(list, 1)
        \o values_bytes(list, 1)

-----------------------------------------------------------------------------
(* populate_packages                                                       *)

\* search.rfind(".") is Some(_)
has_dot(search) == \E i \in 1..Len(search) : search[i] = 46

\* the idx of Some(idx): the 0-based position of the last "."
rfind_dot(search) ==
    (CHOOSE i \in 1..Len(search) :
        search[i] = 46 /\ \A j \in (i + 1)..Len(search) : search[j] # 46) - 1

\* variant: only the immediate parent is inserted, the loop does not go on
populate_packages_parent_only(set, name) ==
    IF ~has_dot(name) THEN set ELSE set \cup {Slice(name, 0, rfind_dot(name))}

\* variant: the set is rebuilt from the prefixes of this name alone
populate_packages_reset(set, name) ==
    { Slice(name, 0, i - 1) : i \in { j \in 1..Len(name) : name[j] = 46 } }

RECURSIVE populate_packages(_, _)
populate_packages(set, name) ==
    IF ~has_dot(name) THEN set
    ELSE LET idx == rfind_dot(name)
         IN  populate_packages(set \cup {Slice(name, 0, idx)}, Slice(name, 0, idx))

-----------------------------------------------------------------------------
(* PyString::to_string: a Python str (code points) as a Rust str (UTF-8)   *)

is_surrogate(c) == c >= 55296 /\ c <= 57343

utf8_of(c) ==
    IF c < 128 THEN << c >>
    ELSE IF c < 2048 THEN << 192 + (c \div 64), 128 + (c % 64) >>
    ELSE IF c < 65536
    THEN << 224 + (c \div 4096), 128 + ((c \div 64) % 64), 128 + (c % 64) >>
    ELSE << 240 + (c \div 262144), 128 + ((c \div 4096) % 64),
            128 + ((c \div 64) % 64), 128 + (c % 64) >>

RECURSIVE utf8_bytes(_)
utf8_bytes(s) == IF s = << >> THEN << >> ELSE utf8_of(Head(s)) \o utf8_bytes(Tail(s))

\* name.to_string(py): a str holding a lone surrogate has no UTF-8 form and the
\* conversion fails; the `?` of the caller returns that failure.
to_string(name) ==
    IF \E i \in 1..Len(name) : is_surrogate(name[i])
    THEN [ok |-> FALSE, str |-> << >>]
    ELSE [ok |-> TRUE, str |-> utf8_bytes(name)]

-----------------------------------------------------------------------------
(* ModulesType and its methods                                             *)

NoInstance == [exists |-> FALSE, py_modules |-> EmptyMap, pyc_modules |-> EmptyMap,
               packages |-> {}]

OkView(bytes) == [kind |-> "Ok", exc |-> "", view |-> bytes, flag |-> FALSE]
OkBool(b)     == [kind |-> "Ok", exc |-> "", view |-> << >>, flag |-> b]
Raise(exc)    == [kind |-> "Err", exc |-> exc, view |-> << >>, flag |-> FALSE]

\* the values of py_modules borrow from PY_MODULES_DATA
get_source(self, name) ==
    LET key == to_string(name)
    IN  IF ~key.ok THEN Raise("UnicodeError")
        ELSE IF key.str \in DOMAIN self.py_modules
        THEN OkView(Slice(PY_MODULES_DATA, self.py_modules[key.str].start,
                          self.py_modules[key.str].end))
        ELSE Raise("KeyError")

\* variant: a name missing from pyc_modules is looked up in py_modules
get_code_with_fallback(self, name) ==
    LET key == to_string(name)
    IN  IF ~key.ok THEN Raise("UnicodeError")
        ELSE IF key.str \in DOMAIN self.pyc_modules
        THEN OkView(Slice(PYC_MODULES_DATA, self.pyc_modules[key.str].start,
                          self.pyc_modules[key.str].end))
        ELSE get_source(self, name)

\* the values of pyc_modules borrow from PYC_MODULES_DATA
get_code(self, name) ==
    LET key == to_string(name)
    IN  IF ~key.ok THEN Raise("UnicodeError")
        ELSE IF key.str \in DOMAIN self.pyc_modules
        THEN OkView(Slice(PYC_MODULES_DATA, self.pyc_modules[key.str].start,
                          self.pyc_modules[key.str].end))
        ELSE Raise("KeyError")

\* variant: only py_modules is consulted
has_module_source_only(self, name) ==
    LET key == to_string(name)
    IN  IF ~key.ok THEN Raise("UnicodeError")
        ELSE OkBool(key.str \in DOMAIN self.py_modules)

has_module(self, name) ==
    LET key == to_string(name)
    IN  IF ~key.ok THEN Raise("UnicodeError")
        ELSE IF key.str \in DOMAIN self.py_modules THEN OkBool(TRUE)
        ELSE IF key.str \in DOMAIN self.pyc_modules THEN OkBool(TRUE)
        ELSE OkBool(FALSE)

is_package(self, name) ==
    LET key == to_string(name)
    IN  IF ~key.ok THEN Raise("UnicodeError")
        ELSE OkBool(key.str \in self.packages)

-----------------------------------------------------------------------------
(* The embedded blobs the registry is built from                           *)

\* "a", "a.b.c" and "é.b" as Rust strs
Catalogue == << << 97 >>, << 97, 46, 98, 46, 99 >>, << 195, 169, 46, 98 >> >>

\* the source text and the code object embedded for module n
SourceOf(n) == << 115 >> \o n
CodeOf(n)   == << 99 >> \o n \o << 0 >>

RECURSIVE SourceList(_, _)
SourceList(S, k) ==
    IF k > Len(Catalogue) THEN << >>
    ELSE (IF k \in S THEN << [name |-> Catalogue[k], payload |-> SourceOf(Catalogue[k])] >>
          ELSE << >>) \o SourceList(S, k + 1)

RECURSIVE CodeList(_, _)
CodeList(S, k) ==
    IF k > Len(Catalogue) THEN << >>
    ELSE (IF k \in S THEN << [name |-> Catalogue[k], payload |-> CodeOf(Catalogue[k])] >>
          ELSE << >>) \o CodeList(S, k + 1)

\* a blob as built, cut to two bytes, or with its last byte missing
Damaged(blob) == { blob, Slice(blob, 0, 2), Slice(blob, 0, Len(blob) - 1) }

SourceBlobs ==
    UNION { Damaged(EncodeBlob(SourceList(S, 1))) : S \in SUBSET (1..Len(Catalogue)) }
CodeBlobs ==
    UNION { Damaged(EncodeBlob(CodeList(S, 1))) : S \in SUBSET (1..Len(Catalogue)) }

\* the Python strs the import mechanism asks about: "a", "a.b", "a.b.c",
\* "é.b", "é", "c", and a str holding the lone surrogate U+DC80
QueryNames ==
    { << 97 >>, << 97, 46, 98 >>, << 97, 46, 98, 46, 99 >>, << 233, 46, 98 >>,
      << 233 >>, << 99 >>, << 56448 >> }

-----------------------------------------------------------------------------
(* init / make_modules, step by step                                       *)

NoErr  == [kind |-> "None", msg |-> ""]
NoCall == [op |-> "none", name |-> << >>, result |-> OkBool(FALSE)]

IdleParse  == entries = << >> /\ data = << >> /\ res = NoResult
IdleDerive == names = {} /\ pkgA = {} /\ seenA = {} /\ pkgB = {} /\ seenB = {}
IdleRegistry ==
    /\ PY_MODULES_DATA = << >> /\ PYC_MODULES_DATA = << >>
    /\ pc = "idle" /\ py_modules = EmptyMap /\ pyc_modules = EmptyMap
    /\ packages = {} /\ todo = {} /\ parsed = << >> /\ err = NoErr
    /\ instance = NoInstance /\ MODULES = FALSE /\ call = NoCall /\ first = NoCall

Init ==
    /\ PY_MODULES_DATA \in SourceBlobs
    /\ PYC_MODULES_DATA \in CodeBlobs
    /\ pc = "parse_py"
    /\ py_modules = EmptyMap /\ pyc_modules = EmptyMap
    /\ packages = {} /\ todo = {} /\ parsed = << >> /\ err = NoErr
    /\ instance = NoInstance /\ MODULES = FALSE /\ call = NoCall /\ first = NoCall
    /\ IdleParse /\ IdleDerive

\* variant: an Err of the first parse is dropped and construction goes on with
\* an empty source mapping
ParsePyIgnoringErr ==
    /\ pc = "parse_py"
    /\ LET r == parse_modules_blob(PY_MODULES_DATA)
       IN  /\ parsed' = Append(parsed, "py")
           /\ py_modules' = (IF r.kind = "Ok" THEN r.map ELSE py_modules)
           /\ pc' = (IF r.kind = "Panic" THEN "panicked" ELSE "parse_pyc")
    /\ UNCHANGED << PY_MODULES_DATA, PYC_MODULES_DATA, pyc_modules, packages, todo, err,
                    instance, MODULES, call, first, parseVars, deriveVars >>

\* line 149-152: parse_modules_blob(PY_MODULES_DATA) and the match on it
ParsePy ==
    /\ pc = "parse_py"
    /\ LET r == parse_modules_blob(PY_MODULES_DATA)
       IN  /\ parsed' = Append(parsed, "py")
           /\ py_modules' = (IF r.kind = "Ok" THEN r.map ELSE py_modules)
           /\ err' = (IF r.kind = "Err" THEN [kind |-> "ValueError", msg |-> r.msg]
                      ELSE err)
           /\ pc' = (IF r.kind = "Ok" THEN "parse_pyc"
                     ELSE IF r.kind = "Err" THEN "failed" ELSE "panicked")
    /\ UNCHANGED << PY_MODULES_DATA, PYC_MODULES_DATA, pyc_modules, packages, todo,
                    instance, MODULES, call, first, parseVars, deriveVars >>

\* line 154-160: parse_modules_blob(PYC_MODULES_DATA), the match on it, the empty
\* HashSet, and the start of `for key in py_modules.keys()`
ParsePyc ==
    /\ pc = "parse_pyc"
    /\ LET r == parse_modules_blob(PYC_MODULES_DATA)
       IN  /\ parsed' = Append(parsed, "pyc")
           /\ pyc_modules' = (IF r.kind = "Ok" THEN r.map ELSE pyc_modules)
           /\ err' = (IF r.kind = "Err" THEN [kind |-> "ValueError", msg |-> r.msg]
                      ELSE err)
           /\ pc' = (IF r.kind = "Ok" THEN "keys_py"
                     ELSE IF r.kind = "Err" THEN "failed" ELSE "panicked")
           /\ todo' = (IF r.kind = "Ok" THEN DOMAIN py_modules ELSE todo)
    /\ packages' = {}
    /\ UNCHANGED << PY_MODULES_DATA, PYC_MODULES_DATA, py_modules, instance, MODULES,
                    call, first, parseVars, deriveVars >>

\* line 162-164: one iteration of `for key in py_modules.keys()`; a HashMap
\* yields its keys in no particular order
PopulatePy(key) ==
    /\ pc = "keys_py"
    /\ key \in todo
    /\ packages' = populate_packages(packages, key)
    /\ todo' = todo \ {key}
    /\ UNCHANGED << PY_MODULES_DATA, PYC_MODULES_DATA, pc, py_modules, pyc_modules,
                    parsed, err, instance, MODULES, call, first, parseVars, deriveVars >>

\* the first loop is exhausted, `for key in pyc_modules.keys()` starts
NextLoop ==
    /\ pc = "keys_py"
    /\ todo = {}
    /\ pc' = "keys_pyc"
    /\ todo' = DOMAIN pyc_modules
    /\ UNCHANGED << PY_MODULES_DATA, PYC_MODULES_DATA, py_modules, pyc_modules, packages,
                    parsed, err, instance, MODULES, call, first, parseVars, deriveVars >>

\* line 166-168: one iteration of `for key in pyc_modules.keys()`
PopulatePyc(key) ==
    /\ pc = "keys_pyc"
    /\ key \in todo
    /\ packages' = populate_packages(packages, key)
    /\ todo' = todo \ {key}
    /\ UNCHANGED << PY_MODULES_DATA, PYC_MODULES_DATA, pc, py_modules, pyc_modules,
                    parsed, err, instance, MODULES, call, first, parseVars, deriveVars >>

\* line 170: ModulesType::create_instance(py, py_modules, pyc_modules, packages)
CreateInstance ==
    /\ pc = "keys_pyc"
    /\ todo = {}
    /\ instance' = [exists |-> TRUE, py_modules |-> py_modules,
                    pyc_modules |-> pyc_modules, packages |-> packages]
    /\ pc' = "add"
    /\ UNCHANGED << PY_MODULES_DATA, PYC_MODULES_DATA, py_modules, pyc_modules, packages,
                    todo, parsed, err, MODULES, call, first, parseVars, deriveVars >>

\* line 189: m.add(py, "MODULES", modules)
AddModules ==
    /\ pc = "add"
    /\ MODULES' = TRUE
    /\ pc' = "ready"
    /\ UNCHANGED << PY_MODULES_DATA, PYC_MODULES_DATA, py_modules, pyc_modules, packages,
                    todo, parsed, err, instance, call, first, parseVars, deriveVars >>

\* variant: a lookup takes the entry out of the source mapping
AnswerConsuming(op, name, result) ==
    /\ pc = "ready"
    /\ MODULES
    /\ call' = [op |-> op, name |-> name, result |-> result]
    /\ first' = (IF first.op = "none" THEN call' ELSE first)
    /\ instance' = [instance EXCEPT !.py_modules =
                        [n \in DOMAIN instance.py_modules \ {to_string(name).str}
                            |-> instance.py_modules[n]]]
    /\ UNCHANGED << PY_MODULES_DATA, PYC_MODULES_DATA, pc, py_modules, pyc_modules,
                    packages, todo, parsed, err, MODULES, parseVars, deriveVars >>

\* A method call on the published object.  The methods take &self and the data
\* fields are never assigned: the instance is left as it is.
Answer(op, name, result) ==
    /\ pc = "ready"
    /\ MODULES
    /\ call' = [op |-> op, name |-> name, result |-> result]
    /\ first' = (IF first.op = "none" THEN call' ELSE first)
    /\ instance' = instance
    /\ UNCHANGED << PY_MODULES_DATA, PYC_MODULES_DATA, pc, py_modules, pyc_modules,
                    packages, todo, parsed, err, MODULES, parseVars, deriveVars >>

GetSource(name) == Answer("get_source", name, get_source(instance, name))
GetCode(name)   == Answer("get_code", name, get_code(instance, name))
HasModule(name) == Answer("has_module", name, has_module(instance, name))
IsPackage(name) == Answer("is_package", name, is_package(instance, name))

Next ==
    \/ ParsePy
    \/ ParsePyc
    \/ \E key \in todo : PopulatePy(key)
    \/ NextLoop
    \/ \E key \in todo : PopulatePyc(key)
    \/ CreateInstance
    \/ AddModules
    \/ \E name \in QueryNames : GetSource(name)
    \/ \E name \in QueryNames : GetCode(name)
    \/ \E name \in QueryNames : HasModule(name)
    \/ \E name \in QueryNames : IsPackage(name)

Spec == Init /\ [][Next]_vars

-----------------------------------------------------------------------------
(* The parser on its own: one blob, one call of parse_modules_blob         *)

MaxEntries == 3

\* "", "a" and "a.b"
ParseNames == { << >>, << 97 >>, << 97, 46, 98 >> }
ParsePayloads == { << >>, << 120 >>, << 121, 122 >> }

EntryLists ==
    UNION { [1..n -> [name : ParseNames, payload : ParsePayloads]] : n \in 0..MaxEntries }

\* every blob built from a list of entries, and every prefix of such a blob
InitParse ==
    /\ entries \in EntryLists
    /\ \E n \in 0..Len(EncodeBlob(entries)) : data = Slice(EncodeBlob(entries), 0, n)
    /\ res = NoResult
    /\ IdleRegistry /\ IdleDerive

Parse ==
    /\ res.kind = "None"
    /\ res' = parse_modules_blob(data)
    /\ UNCHANGED << entries, data, registryVars, deriveVars >>

NextParse == Parse

SpecParse == InitParse /\ [][NextParse]_vars

-----------------------------------------------------------------------------
(* The package derivation on its own: the names of a collection are handed *)
(* to populate_packages in any order and any number of times, twice over   *)

\* "a", "a.b", "a.b.c", "b.c", "a..b"
DeriveNames ==
    { << 97 >>, << 97, 46, 98 >>, << 97, 46, 98, 46, 99 >>, << 98, 46, 99 >>,
      << 97, 46, 46, 98 >> }

InitDerive ==
    /\ names \in SUBSET DeriveNames
    /\ pkgA = {} /\ seenA = {}
    /\ pkgB = {} /\ seenB = {}
    /\ IdleRegistry /\ IdleParse

ApplyA(name) ==
    /\ name \in names
    /\ pkgA' = populate_packages(pkgA, name)
    /\ seenA' = seenA \cup {name}
    /\ UNCHANGED << names, pkgB, seenB, registryVars, parseVars >>

ApplyB(name) ==
    /\ name \in names
    /\ pkgB' = populate_packages(pkgB, name)
    /\ seenB' = seenB \cup {name}
    /\ UNCHANGED << names, pkgA, seenA, registryVars, parseVars >>

NextDerive ==
    \/ \E name \in names : ApplyA(name)
    \/ \E name \in names : ApplyB(name)

SpecDerive == InitDerive /\ [][NextDerive]_vars

-----------------------------------------------------------------------------
(* Properties of parse_modules_blob (under SpecParse)                      *)

Parsed == res.kind # "None"
WholeBlob == data = EncodeBlob(entries)
NamesOf(list) == { list[k].name : k \in 1..Len(list) }
DistinctNames(list) ==
    \A i, j \in 1..Len(list) : list[i].name = list[j].name => i = j
LastIndexOf(list, n) ==
    CHOOSE k \in 1..Len(list) :
        list[k].name = n /\ \A j \in (k + 1)..Len(list) : list[j].name # n
PayloadAt(map, n) == Slice(data, map[n].start, map[n].end)

\* C1: a blob encoded from N entries with pairwise distinct names, in whatever
\* order, parses to Ok with exactly N entries, and every name maps to a byte
\* range holding exactly its original payload.
C1_RoundTrip ==
    (Parsed /\ WholeBlob /\ DistinctNames(entries)) =>
        /\ res.kind = "Ok"
        /\ Cardinality(DOMAIN res.map) = Len(entries)
        /\ \A k \in 1..Len(entries) :
              /\ entries[k].name \in DOMAIN res.map
              /\ PayloadAt(res.map, entries[k].name) = entries[k].payload

\* "a.b" -> "yz" is encoded before "a" -> "x", and both come back
C1_Witness ==
    /\ Parsed /\ WholeBlob /\ DistinctNames(entries)
    /\ Len(entries) = 2
    /\ entries[1] = [name |-> << 97, 46, 98 >>, payload |-> << 121, 122 >>]
    /\ entries[2] = [name |-> << 97 >>, payload |-> << 120 >>]
    /\ res.kind = "Ok"

\* C5: a blob of length 0, 1, 2 or 3 gives the too-small error and not one
\* byte of it is read; the 4-byte blob holding count = 0 parses to an empty
\* mapping.
C5_TooSmall ==
    Parsed =>
        /\ Len(data) < 4 =>
              /\ res.kind = "Err"
              /\ res.msg = "modules data too small"
              /\ res.read = {}
        /\ data = << 0, 0, 0, 0 >> => (res.kind = "Ok" /\ DOMAIN res.map = {})

\* three bytes of a header whose count is not zero
C5_Witness ==
    /\ Parsed
    /\ Len(data) = 3 /\ data[1] # 0
    /\ res.kind = "Err"

\* C6: a blob of at least 4 bytes that is shorter than its header and index
\* declare is reported as an error value distinct from too-small, with no
\* read outside the buffer and no panic.
C6_MalformedIsReported ==
    (Parsed /\ Len(data) >= 4 /\ Len(data) < Len(EncodeBlob(entries))) =>
        /\ res.kind = "Err"
        /\ res.msg # "modules data too small"
        /\ res.read \subseteq 1..Len(data)

\* C10: when a name occurs more than once in the index the parse succeeds, the
\* mapping has one entry per distinct name, and every name (the repeated one
\* and every other) maps to the payload of its last occurrence in index order.
C10_LastWins ==
    (Parsed /\ WholeBlob /\ ~DistinctNames(entries)) =>
        /\ res.kind = "Ok"
        /\ DOMAIN res.map = NamesOf(entries)
        /\ Cardinality(DOMAIN res.map) = Cardinality(NamesOf(entries))
        /\ \A n \in NamesOf(entries) :
              PayloadAt(res.map, n) = entries[LastIndexOf(entries, n)].payload

\* "a" -> "yz", "a.b" -> "x", "a" -> "": "a" is overwritten, "a.b" is not
C10_Witness ==
    /\ Parsed /\ WholeBlob
    /\ Len(entries) = 3
    /\ entries[1] = [name |-> << 97 >>, payload |-> << 121, 122 >>]
    /\ entries[2] = [name |-> << 97, 46, 98 >>, payload |-> << 120 >>]
    /\ entries[3] = [name |-> << 97 >>, payload |-> << >>]
    /\ res.kind = "Ok"
    /\ Cardinality(DOMAIN res.map) = 2

-----------------------------------------------------------------------------
(* Properties of populate_packages (under SpecDerive)                      *)

\* C8: two derivations over the same names, each in an order of its own and
\* with any name applied any number of times, hold the same package set
\* whenever both have seen every name; in particular a derivation that has
\* seen every name gains nothing from being run again.
C8_OrderIndependent ==
    (seenA = names /\ seenB = names) => pkgA = pkgB

C8_Witness ==
    /\ Cardinality(names) >= 3
    /\ seenA = names /\ seenB = names
    /\ Cardinality(pkgA) >= 3

-----------------------------------------------------------------------------
(* Properties of the registry (under Spec)                                 *)

Registered == DOMAIN instance.py_modules \cup DOMAIN instance.pyc_modules

BeginsWith(n, prefix) ==
    Len(n) >= Len(prefix) /\ SubSeq(n, 1, Len(prefix)) = prefix

\* some registered name other than x begins with x followed by "."
HasDescendant(x) ==
    \E n \in Registered : n # x /\ BeginsWith(n, x \o << 46 >>)

PrefixesOf(S) == UNION { { SubSeq(n, 1, k) : k \in 0..Len(n) } : n \in S }

Key(name) == to_string(name).str
Convertible(name) == to_string(name).ok

\* C2: in a built registry the package set holds exactly the names that have
\* a registered dotted descendant, and is_package(X) is true exactly for
\* those X.
C2_PackageIffDescendant ==
    /\ instance.exists =>
          \A x \in PrefixesOf(Registered) \cup instance.packages :
              x \in instance.packages <=> HasDescendant(x)
    /\ call.op = "is_package" =>
          ((call.result.kind = "Ok" /\ call.result.flag)
              <=> (Convertible(call.name) /\ HasDescendant(Key(call.name))))

\* "a" is registered, is asked about and is a package
C2_Witness ==
    /\ call.op = "is_package"
    /\ call.name = << 97 >>
    /\ << 97 >> \in DOMAIN instance.py_modules
    /\ call.result = OkBool(TRUE)

InSource(name) ==
    Convertible(name) /\ Key(name) \in DOMAIN parse_modules_blob(PY_MODULES_DATA).map
InCode(name) ==
    Convertible(name) /\ Key(name) \in DOMAIN parse_modules_blob(PYC_MODULES_DATA).map

\* C4 as stated: get_source answers from the source blob alone and get_code
\* from the compiled-code blob alone: the embedded payload if the name is
\* there, KeyError if it is not.
C4_NotFoundIsKeyError ==
    /\ call.op = "get_source" =>
          call.result = (IF InSource(call.name) THEN OkView(SourceOf(Key(call.name)))
                         ELSE Raise("KeyError"))
    /\ call.op = "get_code" =>
          call.result = (IF InCode(call.name) THEN OkView(CodeOf(Key(call.name)))
                         ELSE Raise("KeyError"))

\* C4 amended: as stated for every name that has a UTF-8 form; a name that
\* has none fails in the conversion, with an error that is not KeyError.
C4_OwnMappingOnly ==
    /\ call.op = "get_source" =>
          IF Convertible(call.name)
          THEN call.result = (IF InSource(call.name)
                              THEN OkView(SourceOf(Key(call.name)))
                              ELSE Raise("KeyError"))
          ELSE call.result.kind = "Err" /\ call.result.exc # "KeyError"
    /\ call.op = "get_code" =>
          IF Convertible(call.name)
          THEN call.result = (IF InCode(call.name)
                              THEN OkView(CodeOf(Key(call.name)))
                              ELSE Raise("KeyError"))
          ELSE call.result.kind = "Err" /\ call.result.exc # "KeyError"

\* get_code("a") is a KeyError although "a" has source, after a get_source
\* that was not found either
C4_Witness ==
    /\ call.op = "get_code"
    /\ call.name = << 97 >>
    /\ << 97 >> \in DOMAIN instance.py_modules
    /\ call.result = Raise("KeyError")
    /\ first.op = "get_source" /\ first.result = Raise("KeyError")

\* C7: the source blob is parsed first; the compiled-code blob is parsed only
\* after the source parse returned Ok; when a parse returns Err, make_modules
\* returns that message as its error; whenever a parse did not succeed no
\* instance exists and MODULES is not published.
C7_AllOrNothing ==
    LET src  == parse_modules_blob(PY_MODULES_DATA)
        code == parse_modules_blob(PYC_MODULES_DATA)
    IN  /\ parsed \in { << >>, << "py" >>, << "py", "pyc" >> }
        /\ Len(parsed) = 2 => src.kind = "Ok"
        /\ (Len(parsed) >= 1 /\ src.kind # "Ok") =>
              /\ parsed = << "py" >>
              /\ ~instance.exists /\ ~MODULES
              /\ src.kind = "Err" =>
                    (pc = "failed" /\ err = [kind |-> "ValueError", msg |-> src.msg])
        /\ (Len(parsed) = 2 /\ code.kind # "Ok") =>
              /\ ~instance.exists /\ ~MODULES
              /\ code.kind = "Err" =>
                    (pc = "failed" /\ err = [kind |-> "ValueError", msg |-> code.msg])
        /\ (instance.exists \/ MODULES) =>
              (err = NoErr /\ src.kind = "Ok" /\ code.kind = "Ok")
        /\ MODULES => instance.exists

\* the source blob parsed, the compiled-code blob was too small
C7_Witness ==
    /\ pc = "failed"
    /\ parsed = << "py", "pyc" >>
    /\ err.kind = "ValueError"
    /\ DOMAIN py_modules # {}
    /\ ~instance.exists /\ ~MODULES

\* C9: once the instance exists no step changes its two mappings or its
\* package set (nor the blobs they borrow from), and a call that repeats the
\* first call made on the registry gets the answer the first call got.
C9_ReadOnly ==
    /\ [][instance.exists =>
            /\ instance' = instance
            /\ PY_MODULES_DATA' = PY_MODULES_DATA
            /\ PYC_MODULES_DATA' = PYC_MODULES_DATA]_vars
    /\ []((call.op = first.op /\ call.name = first.name) => call.result = first.result)

\* get_source("a") succeeded first, a failing call came in between
C9_Witness ==
    /\ first.op = "get_source" /\ first.name = << 97 >> /\ first.result.kind = "Ok"
    /\ call.op = "get_code" /\ call.name = << 97 >> /\ call.result.kind = "Err"
    /\ instance.exists

====
